---- MODULE Spec2Model ----
(***************************************************************************)
(* The encoding subsystem of the SDK: the ABI parameter codec              *)
(* (src/encoding/abi.js), the RLP codec (src/encoding/rlp.js) and the hex  *)
(* validation they use (src/utils/hex.js).                                 *)
(*                                                                         *)
(* Every codec operation is a pure static method.  A behaviour draws the   *)
(* arguments of one call, applies an operation to them and may then feed   *)
(* the returned text to the inverse operation.                             *)
(*                                                                         *)
(* A JavaScript string is the sequence of its UTF-16 code units; a         *)
(* JavaScript value is a pair <<typeof, payload>>; the outcome of a call   *)
(* is <<"return", value>> or <<"throw", message>>.                         *)
(***************************************************************************)
EXTENDS Integers, Sequences, FiniteSets, TLC

VARIABLES
    api,    \* the class whose operations are called
    type,   \* the ABI type tag passed to the call ("" when the call takes none)
    value,  \* the JavaScript value the first call is applied to
    descriptor, \* the type descriptor passed to JSONUtils.decodeJSON
    retryUrl,   \* the retryUrl field of the ConnectionError
    promises,   \* the promise of each retryConnection call, in call order
    invocations, \* the invocations of retryFunction: the call and the argument
    loop,   \* the index and the list of a running RLP.decodeList
    calls,  \* the operations applied so far, in order
    mid,    \* the outcome of the first call once a second one has consumed it
    ret     \* the outcome of the last call

errVars == <<retryUrl, promises, invocations>>

vars == <<api, type, value, descriptor, calls, mid, ret, errVars, loop>>

----------------------------------------------------------------------------
(* Bounds of the drawn inputs *)

\* Generated texts have lengths within Slack of each length the code tests.
Slack == 2
\* Numbers passed to RLP.encode are 0 .. MaxNumber.
MaxNumber == 300
\* Lists passed to RLP.encode have at most MaxListLen elements.
MaxListLen == 2
\* Arrays and objects passed to JSONUtils.encodeJSON, paired with every
\* descriptor of their shape, have at most MaxJsonLen entries.
MaxJsonLen == 2
\* retryConnection is called at most MaxRetryCalls times on one error.
MaxRetryCalls == 2
\* Texts passed to RLP.decodeList have at most MaxHexLen characters.
MaxHexLen == 6

----------------------------------------------------------------------------
(* Text *)

AsciiChars ==
    <<" ", "!", "quote", "#", "$", "%", "&", "'", "(", ")", "*", "+", ",", "-", ".", "/",
      "0", "1", "2", "3", "4", "5", "6", "7", "8", "9", ":", ";", "<", "=", ">", "?",
      "@", "A", "B", "C", "D", "E", "F", "G", "H", "I", "J", "K", "L", "M", "N", "O",
      "P", "Q", "R", "S", "T", "U", "V", "W", "X", "Y", "Z", "[", "backslash", "]", "^", "_",
      "backtick", "a", "b", "c", "d", "e", "f", "g", "h", "i", "j", "k", "l", "m", "n", "o",
      "p", "q", "r", "s", "t", "u", "v", "w", "x", "y", "z", "{", "|", "}", "~">>

\* The code unit of a printable ASCII character (the characters 34, 92 and 96
\* are named, not written).
Ord(c) == 31 + (CHOOSE i \in 1..Len(AsciiChars) : AsciiChars[i] = c)

\* The string whose characters are the given printable ASCII characters.
Txt(cs) == [i \in 1..Len(cs) |-> Ord(cs[i])]

Rep(c, n) == [i \in 1..n |-> c]

\* s.slice(from) and s.slice(from, to) for from, to >= 0.
Slice(s, from) == IF from >= Len(s) THEN <<>> ELSE SubSeq(s, from + 1, Len(s))

SliceTo(s, from, to) ==
    IF from >= Len(s) \/ to <= from THEN <<>>
    ELSE SubSeq(s, from + 1, IF to > Len(s) THEN Len(s) ELSE to)

\* The value of a hex digit character, -1 for any other character.
HexVal(c) ==
    IF c \in 48..57 THEN c - 48
    ELSE IF c \in 97..102 THEN c - 87
    ELSE IF c \in 65..70 THEN c - 55
    ELSE -1

IsHexChar(c) == HexVal(c) >= 0

\* The lowercase hex digit character of d in 0..15.
HexChar(d) == IF d < 10 THEN 48 + d ELSE 87 + d

\* String.prototype.padStart(n, c) with a one-character filler.
PadStart(s, n, c) == IF Len(s) >= n THEN s ELSE Rep(c, n - Len(s)) \o s

----------------------------------------------------------------------------
(* JavaScript values and call outcomes *)

TypeOf(v) == v[1]
Val(v) == v[2]

\* A number k or k + 0.5 (the only non-integers the code computes are halves).
Num(k) == <<"number", [int |-> k, half |-> FALSE]>>
NumHalf(k) == <<"number", [int |-> k, half |-> TRUE]>>
Str(s) == <<"string", s>>
Bool(b) == <<"boolean", b>>
\* An arbitrary-precision integer: its sign and its base-16 digits, most
\* significant first, without leading zeros (zero is <<0>>).
Big(neg, mag) == <<"bigint", [neg |-> neg, mag |-> mag]>>
Arr(items) == <<"array", items>>
\* A plain object: its own enumerable properties [key, val] in for-in order
\* (the keys are not integer-like, so that is insertion order).
Obj(entries) == <<"object", entries>>
Null == <<"null", "null">>
Undefined == <<"undefined", "undefined">>
\* No value: before a call has returned, and while a promise is pending.
None == <<"none">>

Return(v) == <<"return", v>>
Throw(msg) == <<"throw", msg>>
Returned(r) == r[1] = "return"
Threw(r) == r[1] = "throw"

RECURSIVE Digits16(_)
Digits16(n) == IF n < 16 THEN <<n>> ELSE Append(Digits16(n \div 16), n % 16)

\* The digits without their leading zeros (zero keeps one digit).
StripZeros(ds) ==
    LET nonzero == {i \in 1..Len(ds) : ds[i] # 0}
    IN  IF nonzero = {} THEN <<0>>
        ELSE SubSeq(ds, CHOOSE i \in nonzero : \A j \in nonzero : i <= j, Len(ds))

HexText(ds) == [i \in 1..Len(ds) |-> HexChar(ds[i])]

Abs(n) == IF n < 0 THEN -n ELSE n

\* Number.prototype.toString(16) of k or k + 0.5, k >= 0, or of a negative
\* integer.
Number_toString16(x) ==
    (IF x.int < 0 THEN Txt(<<"-">>) ELSE <<>>)
        \o HexText(Digits16(Abs(x.int)))
        \o (IF x.half THEN Txt(<<".", "8">>) ELSE <<>>)

\* BigInt.prototype.toString(16).
BigInt_toString16(b) ==
    (IF b.neg THEN Txt(<<"-">>) ELSE <<>>) \o HexText(b.mag)

BigOfInt(n) == [neg |-> n < 0, mag |-> Digits16(Abs(n))]

IsDecimal(s) == Len(s) > 0 /\ \A i \in 1..Len(s) : s[i] \in 48..57

\* The number a text of decimal digits denotes (below 2^31).
RECURSIVE DecimalValue(_)
DecimalValue(ds) ==
    IF ds = <<>> THEN 0
    ELSE (10 * DecimalValue(SubSeq(ds, 1, Len(ds) - 1))) + ds[Len(ds)]

ParseDecimal(s) == DecimalValue(StripZeros([i \in 1..Len(s) |-> s[i] - 48]))

\* BigInt(string): "" is 0n, decimal digits with an optional sign, or 0x/0X
\* followed by hex digits; anything else is a SyntaxError.  (Surrounding
\* white space and the 0o/0b forms are not drawn as inputs.)
StringToBigInt(s) ==
    IF s = <<>> THEN Return(BigOfInt(0))
    ELSE IF Len(s) > 2 /\ s[1] = 48 /\ s[2] \in {88, 120}
            /\ \A i \in 3..Len(s) : IsHexChar(s[i])
        THEN Return([neg |-> FALSE,
                     mag |-> StripZeros([i \in 1..Len(s) - 2 |-> HexVal(s[i + 2])])])
    ELSE IF IsDecimal(s) THEN Return(BigOfInt(ParseDecimal(s)))
    ELSE IF s[1] \in {43, 45} /\ IsDecimal(Tail(s))
        THEN Return(BigOfInt(IF s[1] = 45 THEN -ParseDecimal(Tail(s))
                                          ELSE ParseDecimal(Tail(s))))
    ELSE Throw("SyntaxError: Cannot convert to a BigInt")

\* BigInt(value).
ToBigInt(v) ==
    CASE TypeOf(v) = "bigint" -> Return(Val(v))
      [] TypeOf(v) = "number" ->
            IF Val(v).half
            THEN Throw("RangeError: not an integer")
            ELSE Return(BigOfInt(Val(v).int))
      [] TypeOf(v) = "boolean" -> Return(BigOfInt(IF Val(v) THEN 1 ELSE 0))
      [] TypeOf(v) = "string" -> StringToBigInt(Val(v))
      [] OTHER -> Throw("TypeError: Cannot convert to a BigInt")

\* ToBoolean(value).
Truthy(v) ==
    CASE TypeOf(v) = "boolean" -> Val(v)
      [] TypeOf(v) = "number" -> Val(v).int # 0 \/ Val(v).half
      [] TypeOf(v) = "bigint" -> Val(v).mag # <<0>>
      [] TypeOf(v) = "string" -> Val(v) # <<>>
      [] TypeOf(v) \in {"null", "undefined"} -> FALSE
      [] OTHER -> TRUE

----------------------------------------------------------------------------
(* Buffer: UTF-8 and hex *)

IsHighSurrogate(c) == c \in 55296..56319
IsLowSurrogate(c) == c \in 56320..57343

Utf8Of(cp) ==
    IF cp < 128 THEN <<cp>>
    ELSE IF cp < 2048 THEN <<192 + (cp \div 64), 128 + (cp % 64)>>
    ELSE IF cp < 65536
        THEN <<224 + (cp \div 4096), 128 + ((cp \div 64) % 64), 128 + (cp % 64)>>
    ELSE <<240 + (cp \div 262144), 128 + ((cp \div 4096) % 64),
           128 + ((cp \div 64) % 64), 128 + (cp % 64)>>

\* The concatenation of pieces[lo], ..., pieces[hi].
RECURSIVE Flatten(_, _, _)
Flatten(pieces, lo, hi) ==
    IF lo > hi THEN <<>>
    ELSE IF lo = hi THEN pieces[lo]
    ELSE LET m == (lo + hi) \div 2
         IN  Flatten(pieces, lo, m) \o Flatten(pieces, m + 1, hi)

\* Buffer.from(s, 'utf8'): the UTF-8 bytes of a string; a surrogate pair is
\* one code point, a lone surrogate becomes U+FFFD.  A low surrogate right
\* after a high one is the second half of their pair.
Utf8Bytes(s) ==
    LET piece(i) ==
            IF IsHighSurrogate(s[i]) /\ i < Len(s) /\ IsLowSurrogate(s[i + 1])
            THEN Utf8Of(65536 + ((s[i] - 55296) * 1024) + (s[i + 1] - 56320))
            ELSE IF IsLowSurrogate(s[i]) /\ i > 1 /\ IsHighSurrogate(s[i - 1])
            THEN <<>>
            ELSE IF IsHighSurrogate(s[i]) \/ IsLowSurrogate(s[i])
            THEN <<239, 191, 189>>
            ELSE Utf8Of(s[i])
    IN  Flatten([i \in 1..Len(s) |-> piece(i)], 1, Len(s))

\* buffer.toString('hex'): two lowercase hex digits per byte.
BytesToHex(bs) ==
    [i \in 1..2 * Len(bs) |->
        IF i % 2 = 1 THEN HexChar(bs[(i + 1) \div 2] \div 16)
                     ELSE HexChar(bs[i \div 2] % 16)]

\* Buffer.from(s, 'hex'): one byte per pair of hex digits, ending at the first
\* pair that is not two hex digits; an odd last character is dropped.
HexToBytes(s) ==
    LET bad == {i \in 1..(Len(s) \div 2) :
                    ~IsHexChar(s[(2 * i) - 1]) \/ ~IsHexChar(s[2 * i])}
        n == IF bad = {} THEN Len(s) \div 2
             ELSE (CHOOSE i \in bad : \A j \in bad : i <= j) - 1
    IN  [i \in 1..n |-> (16 * HexVal(s[(2 * i) - 1])) + HexVal(s[2 * i])]

IsCont(b) == b \in 128..191

\* The code units of a code point.
CodeUnits(cp) ==
    IF cp < 65536 THEN <<cp>>
    ELSE <<55296 + ((cp - 65536) \div 1024), 56320 + ((cp - 65536) % 1024)>>

\* One step of the UTF-8 decoder on the bytes bs, which start a sequence:
\* the code units it emits and the bytes it consumes.  A well-formed
\* sequence gives its code point, a maximal ill-formed part gives U+FFFD.
Utf8Step(bs) ==
    LET b == bs[1]
        n == Len(bs)
        lo2 == IF b = 224 THEN 160 ELSE IF b = 240 THEN 144 ELSE 128
        hi2 == IF b = 237 THEN 159 ELSE IF b = 244 THEN 143 ELSE 191
        ok2 == n >= 2 /\ bs[2] \in lo2..hi2
        ok3 == ok2 /\ n >= 3 /\ IsCont(bs[3])
        ok4 == ok3 /\ n >= 4 /\ IsCont(bs[4])
        bad(k) == [units |-> <<65533>>, used |-> k]
    IN  IF b < 128 THEN [units |-> <<b>>, used |-> 1]
        ELSE IF b \in 194..223 THEN
            IF n >= 2 /\ IsCont(bs[2])
            THEN [units |-> <<((b - 192) * 64) + (bs[2] - 128)>>, used |-> 2]
            ELSE bad(1)
        ELSE IF b \in 224..239 THEN
            IF ok3
            THEN [units |-> <<((b - 224) * 4096) + ((bs[2] - 128) * 64) + (bs[3] - 128)>>,
                  used |-> 3]
            ELSE bad(IF ok2 THEN 2 ELSE 1)
        ELSE IF b \in 240..244 THEN
            IF ok4
            THEN [units |-> CodeUnits(((b - 240) * 262144) + ((bs[2] - 128) * 4096)
                                      + ((bs[3] - 128) * 64) + (bs[4] - 128)),
                  used |-> 4]
            ELSE bad(IF ok3 THEN 3 ELSE IF ok2 THEN 2 ELSE 1)
        ELSE bad(1)

\* buffer.toString('utf8').  Only continuation bytes are consumed after the
\* first byte of a step, so a byte starts a step unless it is a continuation
\* byte within the reach of a step that starts at most three bytes before.
Utf8Decode(bs) ==
    LET window(i) == SubSeq(bs, i, IF i + 3 > Len(bs) THEN Len(bs) ELSE i + 3)
        starts(i) ==
            \/ ~IsCont(bs[i])
            \/ ~\E j \in 1..(i - 1) :
                    /\ j >= i - 3
                    /\ ~IsCont(bs[j])
                    /\ j + Utf8Step(window(j)).used > i
    IN  Flatten([i \in 1..Len(bs) |->
                    IF starts(i) THEN Utf8Step(window(i)).units ELSE <<>>],
                1, Len(bs))

\* s.replace(/\0/g, '').
RemoveNulls(s) == SelectSeq(s, LAMBDA c : c # 0)

----------------------------------------------------------------------------
(* src/utils/hex.js *)

\* /^0x[0-9a-fA-F]+$/.test(value).  A value that is not a string is tested
\* as its string form, which for a number, a bigint or a boolean never
\* starts with "0x".
HexUtils_isHex(v) ==
    /\ TypeOf(v) = "string"
    /\ Len(Val(v)) >= 3
    /\ Val(v)[1] = 48
    /\ Val(v)[2] = 120
    /\ \A i \in 3..Len(Val(v)) : IsHexChar(Val(v)[i])

----------------------------------------------------------------------------
(* src/encoding/abi.js *)

\* The length of one ABI word in hex characters.
WordLen == 64
\* The length of an address with its prefix.
AddressLen == 42

TrueWord == Append(Rep(48, WordLen - 1), 49)
FalseWord == Rep(48, WordLen)

ABIUtils_encodeUInt256(v) ==
    LET bigIntValue == ToBigInt(v)
    IN  IF Threw(bigIntValue) THEN bigIntValue
        ELSE IF bigIntValue[2].neg THEN Throw("Value must be a positive integer")
        ELSE Return(Str(PadStart(BigInt_toString16(bigIntValue[2]), WordLen, 48)))

\* Buffer.from of a value that is no string (nor a buffer or an array) is a
\* TypeError.
ABIUtils_encodeString(v) ==
    IF TypeOf(v) # "string" THEN Throw("TypeError: The first argument must be of type string")
    ELSE Return(Str(PadStart(BytesToHex(Utf8Bytes(Val(v))), WordLen, 48)))

ABIUtils_encodeBool(v) ==
    Return(Str(IF Truthy(v) THEN TrueWord ELSE FalseWord))

ToLower(s) == [i \in 1..Len(s) |-> IF s[i] \in 65..90 THEN s[i] + 32 ELSE s[i]]

\* encodeAddress as it would be if it normalised the digits to lowercase.
ABIUtils_encodeAddress_lowercase(v) ==
    IF ~HexUtils_isHex(v) \/ Len(Val(v)) # AddressLen
    THEN Throw("Invalid Quantova address")
    ELSE Return(Str(PadStart(ToLower(Slice(Val(v), 2)), WordLen, 48)))

\* encodeAddress as it would be without its test of the length.
ABIUtils_encodeAddress_anyLength(v) ==
    IF ~HexUtils_isHex(v) THEN Throw("Invalid Quantova address")
    ELSE Return(Str(PadStart(Slice(Val(v), 2), WordLen, 48)))

\* A value that is no string has no length of 42.
ABIUtils_encodeAddress(v) ==
    IF ~HexUtils_isHex(v) \/ Len(Val(v)) # AddressLen
    THEN Throw("Invalid Quantova address")
    ELSE Return(Str(PadStart(Slice(Val(v), 2), WordLen, 48)))

\* value.length of a number, a bigint or a boolean is undefined.
ABIUtils_encodeBytes32(v) ==
    IF TypeOf(v) # "string" \/ Len(Val(v)) # WordLen
    THEN Throw("Value must be 32 bytes (64 hex characters)")
    ELSE IF ~HexUtils_isHex(v) THEN Throw("Value must be a valid hex string")
    ELSE Return(v)

ABIUtils_encodeBytes(v) ==
    IF TypeOf(v) # "string" \/ ~HexUtils_isHex(v)
    THEN Throw("Value must be a hex string")
    ELSE Return(Str(PadStart(Val(v), WordLen, 48)))

\* encodeParameter as it would be if it treated an unknown tag as bytes.
ABIUtils_encodeParameter_defaultBytes(t, v) ==
    CASE t = "uint256" -> ABIUtils_encodeUInt256(v)
      [] t = "string" -> ABIUtils_encodeString(v)
      [] t = "bool" -> ABIUtils_encodeBool(v)
      [] t = "address" -> ABIUtils_encodeAddress(v)
      [] t = "bytes32" -> ABIUtils_encodeBytes32(v)
      [] OTHER -> ABIUtils_encodeBytes(v)

ABIUtils_encodeParameter(t, v) ==
    CASE t = "uint256" -> ABIUtils_encodeUInt256(v)
      [] t = "string" -> ABIUtils_encodeString(v)
      [] t = "bool" -> ABIUtils_encodeBool(v)
      [] t = "address" -> ABIUtils_encodeAddress(v)
      [] t = "bytes32" -> ABIUtils_encodeBytes32(v)
      [] t = "bytes" -> ABIUtils_encodeBytes(v)
      [] OTHER -> Throw("Unsupported ABI type")

\* The decoders take the encoded text, a string.
ABIUtils_decodeUInt256(e) ==
    LET b == StringToBigInt(<<48, 120>> \o e)
    IN  IF Threw(b) THEN b ELSE Return(<<"bigint", b[2]>>)

ABIUtils_decodeString(e) ==
    Return(Str(RemoveNulls(Utf8Decode(HexToBytes(e)))))

ABIUtils_decodeBool(e) == Return(Bool(e = TrueWord))

ABIUtils_decodeAddress(e) == Return(Str(<<48, 120>> \o Slice(e, 24)))

ABIUtils_decodeBytes32(e) == Return(Str(e))

ABIUtils_decodeBytes(e) == Return(Str(e))

ABIUtils_decodeParameter(t, e) ==
    CASE t = "uint256" -> ABIUtils_decodeUInt256(e)
      [] t = "string" -> ABIUtils_decodeString(e)
      [] t = "bool" -> ABIUtils_decodeBool(e)
      [] t = "address" -> ABIUtils_decodeAddress(e)
      [] t = "bytes32" -> ABIUtils_decodeBytes32(e)
      [] t = "bytes" -> ABIUtils_decodeBytes(e)
      [] OTHER -> Throw("Unsupported ABI type")

\* The hash object of the keccak library: the bytes it has absorbed.  A
\* new object has absorbed nothing; update appends the UTF-8 bytes of a
\* string.
Keccak_create == <<>>
Keccak_update(hash, data) == hash \o Utf8Bytes(data)

\* digest('hex'): 64 lowercase hex digits that are a function of the
\* absorbed bytes alone.  The digits of Keccak-256 are not computed; a
\* positional checksum of the bytes stands for them.
Keccak_digestHex(hash) ==
    LET n == Len(hash)
        digit(i) == IF n = 0 THEN (7 * i) % 16
                    ELSE (hash[1 + (i % n)] + (i * n) + hash[n]) % 16
    IN  [i \in 1..WordLen |-> HexChar(digit(i))]

\* generateFunctionSelector as it would be if it kept the first 8 bytes.
ABIUtils_generateFunctionSelector_eightBytes(signature) ==
    LET hash == Keccak_digestHex(Keccak_update(Keccak_create, signature))
    IN  Return(Str(<<48, 120>> \o SliceTo(hash, 0, 16)))

ABIUtils_generateFunctionSelector(signature) ==
    LET hash == Keccak_digestHex(Keccak_update(Keccak_create, signature))
    IN  Return(Str(<<48, 120>> \o SliceTo(hash, 0, 8)))

----------------------------------------------------------------------------
(* src/encoding/rlp.js *)

RLP_intToHex(x) == Number_toString16(x)

\* value <= 0x7f for a number k or k + 0.5.
AtMost127(x) == x.int < 127 \/ (x.int = 127 /\ ~x.half)

\* encodeNumber as it would be if the long form carried the byte count of
\* the digits, as the comment in its source announces.
RLP_encodeNumber_lengthPrefixed(x) ==
    IF x.int < 0 THEN Throw("Cannot encode negative numbers")
    ELSE LET hexValue == Number_toString16(x)
         IN  IF AtMost127(x) THEN Return(Str(<<48, 120>> \o hexValue))
             ELSE Return(Str(<<48, 120>>
                     \o RLP_intToHex([int |-> (Len(hexValue) + 1) \div 2, half |-> FALSE])
                     \o hexValue))

\* encodeNumber as it would be without its test of the sign.
RLP_encodeNumber_unchecked(x) ==
    Return(Str(<<48, 120>> \o Number_toString16(x)))

RLP_encodeNumber(x) ==
    IF x.int < 0 THEN Throw("Cannot encode negative numbers")
    ELSE LET hexValue == Number_toString16(x)
         IN  IF AtMost127(x) THEN Return(Str(<<48, 120>> \o hexValue))
             ELSE Return(Str(<<48, 120>> \o RLP_intToHex(x)))

\* encodeString as it would be if the length prefix were padded to a whole
\* byte.
RLP_encodeString_paddedLength(s) ==
    LET buffer == Utf8Bytes(s)
    IN  IF Len(buffer) = 1 /\ buffer[1] <= 127
        THEN Return(Str(<<48, 120>> \o BytesToHex(buffer)))
        ELSE Return(Str(<<48, 120>>
                        \o PadStart(RLP_intToHex([int |-> Len(buffer), half |-> FALSE]), 2, 48)
                        \o BytesToHex(buffer)))

RLP_encodeString(s) ==
    LET buffer == Utf8Bytes(s)
    IN  IF Len(buffer) = 1 /\ buffer[1] <= 127
        THEN Return(Str(<<48, 120>> \o BytesToHex(buffer)))
        ELSE Return(Str(<<48, 120>>
                        \o RLP_intToHex([int |-> Len(buffer), half |-> FALSE])
                        \o BytesToHex(buffer)))

\* Array.prototype.join('') of texts.
RECURSIVE Join(_)
Join(ts) == IF ts = <<>> THEN <<>> ELSE ts[1] \o Join(Tail(ts))

\* encodeList maps encode over the items (the first item that throws ends
\* the call), strips each "0x" and prefixes the joined text with the hex of
\* half its length.
RECURSIVE RLP_encode(_)

\* encodeList as it would be if it kept the "0x" of every item.
RLP_encodeList_keepPrefix(items) ==
    LET encoded == [i \in 1..Len(items) |-> RLP_encode(items[i])]
        failed == {i \in 1..Len(items) : Threw(encoded[i])}
    IN  IF failed # {}
        THEN encoded[CHOOSE i \in failed : \A j \in failed : i <= j]
        ELSE LET encodedList == [i \in 1..Len(items) |-> Val(encoded[i][2])]
                 joined == Join(encodedList)
                 listLength == [int |-> Len(joined) \div 2, half |-> Len(joined) % 2 = 1]
                 lengthPrefix == RLP_intToHex(listLength)
             IN  Return(Str(<<48, 120>> \o lengthPrefix \o joined))

RLP_encodeList(items) ==
    LET encoded == [i \in 1..Len(items) |-> RLP_encode(items[i])]
        failed == {i \in 1..Len(items) : Threw(encoded[i])}
    IN  IF failed # {}
        THEN encoded[CHOOSE i \in failed : \A j \in failed : i <= j]
        ELSE LET encodedList == [i \in 1..Len(items) |-> Slice(Val(encoded[i][2]), 2)]
                 joined == Join(encodedList)
                 listLength == [int |-> Len(joined) \div 2, half |-> Len(joined) % 2 = 1]
                 lengthPrefix == RLP_intToHex(listLength)
             IN  Return(Str(<<48, 120>> \o lengthPrefix \o joined))

RLP_encode(v) ==
    CASE TypeOf(v) = "number" -> RLP_encodeNumber(Val(v))
      [] TypeOf(v) = "string" -> RLP_encodeString(Val(v))
      [] TypeOf(v) = "array" -> RLP_encodeList(Val(v))
      [] OTHER -> Throw("Unsupported type for RLP encoding")

\* parseInt(s, 16) of a text of at most two characters without sign or white
\* space: the value of its leading hex digits after an optional "0x", and
\* NaN, written -1, when there are none.
parseInt16(s) ==
    IF s = <<>> \/ ~IsHexChar(s[1]) THEN -1
    ELSE IF Len(s) = 1 THEN HexVal(s[1])
    ELSE IF s[1] = 48 /\ s[2] \in {88, 120} THEN -1
    ELSE IF IsHexChar(s[2]) THEN (16 * HexVal(s[1])) + HexVal(s[2])
    ELSE HexVal(s[1])

RLP_decodeString(hexString) ==
    Return(Str(Utf8Decode(HexToBytes(hexString))))

\* The while loop of decodeList.  An item length of NaN pushes an empty item
\* and makes the index NaN, which ends the loop.
RECURSIVE RLP_decodeListLoop(_, _, _)
RLP_decodeListLoop(hexString, index, list) ==
    IF index >= Len(hexString) THEN list
    ELSE LET itemLength == parseInt16(SliceTo(hexString, index, index + 2))
         IN  IF itemLength = -1 THEN Append(list, Str(<<>>))
             ELSE RLP_decodeListLoop(hexString, index + 2 + itemLength,
                     Append(list, Str(SliceTo(hexString, index + 2,
                                              index + 2 + itemLength))))

\* NaN as an index or a length.
NaN == -1

\* One iteration of the loop as it would be if the index advanced by one
\* character and the item.
RLP_decodeListStep_byOne(hexString, l) ==
    LET itemLength == parseInt16(SliceTo(hexString, l.index, l.index + 2))
    IN  IF itemLength = NaN
        THEN [index |-> NaN, list |-> Append(l.list, Str(<<>>))]
        ELSE [index |-> l.index + 1 + itemLength,
              list |-> Append(l.list, Str(SliceTo(hexString, l.index + 2,
                                                  l.index + 2 + itemLength)))]

\* One iteration of the while loop of decodeList, from the index and list l.
\* slice(index + 2, NaN) is the empty text and index + 2 + NaN is NaN.
RLP_decodeListStep(hexString, l) ==
    LET itemLength == parseInt16(SliceTo(hexString, l.index, l.index + 2))
    IN  IF itemLength = NaN
        THEN [index |-> NaN, list |-> Append(l.list, Str(<<>>))]
        ELSE [index |-> l.index + 2 + itemLength,
              list |-> Append(l.list, Str(SliceTo(hexString, l.index + 2,
                                                  l.index + 2 + itemLength)))]

\* index < hexString.length, false for NaN.
RLP_decodeListContinues(hexString, l) ==
    l.index # NaN /\ l.index < Len(hexString)

RLP_decodeList(hexString) ==
    Return(Arr(RLP_decodeListLoop(hexString, 2, <<>>)))

\* decode takes the text with its prefix.  firstByte is parseInt of the one
\* character hexString[0], NaN when that is undefined or no hex digit; both
\* comparisons with NaN are false.
RLP_decode(s) ==
    IF Len(s) < 2 THEN Throw("Hex string must be at least 2 characters long")
    ELSE LET hexString == Slice(s, 2)
             firstByte == parseInt16(SliceTo(hexString, 0, 1))
         IN  IF firstByte # -1 /\ firstByte <= 127 THEN RLP_decodeString(hexString)
             ELSE IF firstByte # -1 /\ firstByte >= 192 THEN RLP_decodeList(hexString)
             ELSE Throw("Unsupported RLP format")

----------------------------------------------------------------------------
(* src/utils/hex.js *)

\* Each code unit gives the last two characters of "0" and its hex digits.
HexUtils_stringToHex(str) ==
    LET piece(i) ==
            LET t == <<48>> \o Number_toString16([int |-> str[i], half |-> FALSE])
            IN  SubSeq(t, Len(t) - 1, Len(t))
    IN  Return(Str(<<48, 120>> \o Flatten([i \in 1..Len(str) |-> piece(i)], 1, Len(str))))

\* The loop reads hex.substr(i, 2) for i = 2, 4, ...; the last piece is one
\* character when the number of digits is odd.
HexUtils_hexToString(hex) ==
    IF ~HexUtils_isHex(Str(hex)) THEN Throw("Invalid hex string")
    ELSE Return(Str([k \in 1..((Len(hex) - 1) \div 2) |->
                        parseInt16(SliceTo(hex, 2 * k, (2 * k) + 2))]))

----------------------------------------------------------------------------
(* src/encoding/string.js *)

\* /^[0-9a-fA-F]+$/.test(hex) for a string hex.
StringUtils_isValidHex(hex) ==
    Return(Bool(Len(hex) >= 1 /\ \A i \in 1..Len(hex) : IsHexChar(hex[i])))

----------------------------------------------------------------------------
(* src/errors/transactionError.js: ConnectionError *)

\* 'N/A'
NotAvailable == Txt(<<"N", "/", "A">>)

\* The retryUrl field the constructor sets from its retryUrl argument.
ConnectionError_constructor(retryUrlArg) ==
    [retryUrl |-> IF Truthy(retryUrlArg) THEN retryUrlArg ELSE Str(NotAvailable)]

\* A promise: pending, fulfilled with a value or rejected with an error; and
\* what the retryFunction of its call did.
Promise(state, v, retry) == [state |-> state, value |-> v, retry |-> retry]

\* What an invocation of retryFunction does: it returns a value that is no
\* promise, throws, or returns a promise that is fulfilled later, rejected
\* later, or never settled.
RetryOutcomes == {"returns", "throws", "resolves", "rejects", "never"}

\* retryConnection as it would be if it tried retryFunction a second time
\* after a throw.
ConnectionError_retryConnection_twice(this, outcome) ==
    IF this.retryUrl = Str(NotAvailable)
    THEN [invoked |-> <<>>,
          promise |-> Promise("rejected", <<"error", "No retry URL available.">>, "none")]
    ELSE IF outcome = "throws"
    THEN [invoked |-> <<this.retryUrl, this.retryUrl>>,
          promise |-> Promise("fulfilled", Bool(FALSE), outcome)]
    ELSE [invoked |-> <<this.retryUrl>>, promise |-> Promise("pending", None, outcome)]

\* The part of retryConnection that runs in the call, up to the await: the
\* arguments retryFunction is invoked with and the promise the call returns.
\* A throw of retryFunction is caught at once and the function returns false.
ConnectionError_retryConnection(this, outcome) ==
    IF this.retryUrl = Str(NotAvailable)
    THEN [invoked |-> <<>>,
          promise |-> Promise("rejected", <<"error", "No retry URL available.">>, "none")]
    ELSE IF outcome = "throws"
    THEN [invoked |-> <<this.retryUrl>>,
          promise |-> Promise("fulfilled", Bool(FALSE), outcome)]
    ELSE [invoked |-> <<this.retryUrl>>, promise |-> Promise("pending", None, outcome)]

\* The part of retryConnection after the await: return true when the awaited
\* value arrived, return false from the catch block when it was a rejection.
ConnectionError_afterAwait(promise) ==
    IF promise.retry = "rejects" THEN Promise("fulfilled", Bool(FALSE), promise.retry)
    ELSE Promise("fulfilled", Bool(TRUE), promise.retry)

----------------------------------------------------------------------------
(* src/encoding/json.js *)

\* String(value) of a plain object, null or undefined, as RegExp.test makes
\* it of its argument.
ToStringJS(v) ==
    CASE TypeOf(v) = "object" ->
            Txt(<<"[", "o", "b", "j", "e", "c", "t", " ", "O", "b", "j", "e", "c", "t", "]">>)
      [] TypeOf(v) = "null" -> Txt(<<"n", "u", "l", "l">>)
      [] TypeOf(v) = "undefined" -> Txt(<<"u", "n", "d", "e", "f", "i", "n", "e", "d">>)

\* The type tag is returned as the tag itself.
JSONUtils_getType(v) ==
    CASE TypeOf(v) = "number" -> Return("uint256")
      [] TypeOf(v) = "string" -> Return("string")
      [] TypeOf(v) = "boolean" -> Return("bool")
      [] TypeOf(v) = "array" -> Return("bytes[]")
      [] OTHER ->
            IF HexUtils_isHex(Str(ToStringJS(v))) THEN Return("bytes32")
            ELSE Throw("Unsupported type")

JSONUtils_getItemLength(t) ==
    IF t \in {"uint256", "address", "bool", "bytes32", "string", "bytes"}
    THEN Return(WordLen)
    ELSE Throw("Unsupported type length")

\* The outcome of a loop whose i-th round has the outcome outs[i]: the first
\* throw, or else the returned values in order.
FirstThrow(outs) ==
    LET bad == {i \in 1..Len(outs) : Threw(outs[i])}
    IN  IF bad = {} THEN Return([i \in 1..Len(outs) |-> outs[i][2]])
        ELSE outs[CHOOSE i \in bad : \A j \in bad : i <= j]

\* ABIUtils.encodeParameter(this.getType(item), item).
JSONUtils_encodeItem(item) ==
    LET t == JSONUtils_getType(item)
    IN  IF Threw(t) THEN t ELSE ABIUtils_encodeParameter(t[2], item)

\* encodeArray as it would be if it left out the items that are themselves
\* arrays or objects.
JSONUtils_encodeArray_skipNested(items) ==
    LET flat == SelectSeq(items, LAMBDA v : TypeOf(v) \notin {"array", "object", "null"})
        outs == FirstThrow([i \in 1..Len(flat) |-> JSONUtils_encodeItem(flat[i])])
    IN  IF Threw(outs) THEN outs
        ELSE Return(Str(Flatten([i \in 1..Len(flat) |-> Val(outs[2][i])], 1, Len(flat))))

JSONUtils_encodeArray(items) ==
    LET outs == FirstThrow([i \in 1..Len(items) |-> JSONUtils_encodeItem(items[i])])
    IN  IF Threw(outs) THEN outs
        ELSE Return(Str(Flatten([i \in 1..Len(items) |-> Val(outs[2][i])], 1, Len(items))))

\* for (key in value) visits nothing when value is null.
JSONUtils_encodeObject(v) ==
    LET entries == IF TypeOf(v) = "null" THEN <<>> ELSE Val(v)
        outs == FirstThrow([i \in 1..Len(entries) |-> JSONUtils_encodeItem(entries[i].val)])
    IN  IF Threw(outs) THEN outs
        ELSE Return(Str(Flatten([i \in 1..Len(entries) |-> Val(outs[2][i])], 1, Len(entries))))

\* typeof null is 'object'.
JSONUtils_encodeJSON(v) ==
    IF TypeOf(v) = "array" THEN JSONUtils_encodeArray(Val(v))
    ELSE IF TypeOf(v) \in {"object", "null"} THEN JSONUtils_encodeObject(v)
    ELSE Throw("Value must be an object or an array")

\* The decoding of an entry as it would be if the offset did not advance.
JSONUtils_decodeItem_firstWord(encodedValue, t, i) ==
    LET itemLength == JSONUtils_getItemLength(t)
    IN  IF Threw(itemLength) THEN itemLength
        ELSE ABIUtils_decodeParameter(t, SliceTo(encodedValue, 0, itemLength[2]))

\* ABIUtils.decodeParameter(t, encodedValue.slice(offset, offset + itemLength))
\* for the i-th entry t of the descriptor: every item length is one word, so
\* the offset is i - 1 words.
JSONUtils_decodeItem(encodedValue, t, i) ==
    LET itemLength == JSONUtils_getItemLength(t)
        offset == (i - 1) * WordLen
    IN  IF Threw(itemLength) THEN itemLength
        ELSE ABIUtils_decodeParameter(t,
                SliceTo(encodedValue, offset, offset + itemLength[2]))

\* The descriptor is an array of type tags.
JSONUtils_decodeArray(encodedValue, types) ==
    LET outs == FirstThrow([i \in 1..Len(types) |->
                              JSONUtils_decodeItem(encodedValue, types[i], i)])
    IN  IF Threw(outs) THEN outs ELSE Return(Arr(outs[2]))

\* The descriptor is an object of type tags, or null.
JSONUtils_decodeObject(encodedValue, d) ==
    LET entries == IF TypeOf(d) = "null" THEN <<>> ELSE Val(d)
        outs == FirstThrow([i \in 1..Len(entries) |->
                              JSONUtils_decodeItem(encodedValue, entries[i].val, i)])
    IN  IF Threw(outs) THEN outs
        ELSE Return(Obj([i \in 1..Len(entries) |->
                            [key |-> entries[i].key, val |-> outs[2][i]]]))

JSONUtils_decodeJSON(encodedValue, d) ==
    IF TypeOf(d) = "array" THEN JSONUtils_decodeArray(encodedValue, Val(d))
    ELSE IF TypeOf(d) \in {"object", "null"} THEN JSONUtils_decodeObject(encodedValue, d)
    ELSE Throw("Type must be an object or an array")

----------------------------------------------------------------------------
(* The drawn inputs *)

Prefix0x == <<48, 120>>

\* '0x32Be343B94f860124dC4fEe278FDCBD38C102D88'
TestAddress ==
    Txt(<<"0", "x", "3", "2", "B", "e", "3", "4", "3", "B", "9", "4", "f", "8",
          "6", "0", "1", "2", "4", "d", "C", "4", "f", "E", "e", "2", "7", "8",
          "F", "D", "C", "B", "D", "3", "8", "C", "1", "0", "2", "D", "8", "8">>)

\* 'Hello, Quantova!'
HelloQuantova ==
    Txt(<<"H", "e", "l", "l", "o", ",", " ", "Q", "u", "a", "n", "t", "o", "v",
          "a", "!">>)

\* The characters of the generated texts: 0, f, B, g, e-acute (two UTF-8
\* bytes) and the null character.  The special texts add the euro sign
\* (three bytes), a lone surrogate and a surrogate pair (four bytes).
Chars == {48, 102, 66, 103, 233, 0}

\* The lengths the code tests: a word, a word less its prefix, the digits of
\* an address, the bytes of a word and half of them, and the empty text.
CriticalLens == {0, WordLen \div 4, WordLen \div 2, AddressLen - 2, WordLen - 2, WordLen}

Lens ==
    {n \in 0..(WordLen + Slack) : \E k \in CriticalLens : n \in (k - Slack)..(k + Slack)}

FamilyTexts ==
    {pre \o Rep(c, n) : pre \in {<<>>, Prefix0x}, c \in Chars, n \in Lens}

SpecialTexts ==
    { TestAddress, HelloQuantova, Txt(<<"H", "i">>), <<97, 0, 98>>,
      Txt(<<"1", "2", "3", "4", "5", "6", "7", "8", "9", "0">>), Txt(<<"-", "5">>),
      Txt(<<"0", "x", "7">>), TrueWord, FalseWord, Prefix0x \o Rep(48, AddressLen - 3) \o <<103>>,
      <<8364>>, <<55357>>, <<55357, 56832>> }

Texts == FamilyTexts \cup SpecialTexts

BigInts ==
    {Big(FALSE, Rep(15, n)) : n \in Lens \ {0}}
        \cup {Big(FALSE, <<1>> \o Rep(0, n - 1)) : n \in Lens \ {0}}
        \cup {Big(FALSE, <<0>>), Big(TRUE, <<1>>)}

AbiTypes ==
    {"uint256", "string", "bool", "address", "bytes32", "bytes", "bytes[]", "uint8"}

AbiValues ==
    {Str(t) : t \in Texts}
        \cup {Num(0), Num(1), Num(1000), Num(-1), NumHalf(0)}
        \cup {Bool(TRUE), Bool(FALSE)}
        \cup BigInts

\* Every leading byte, alone and followed by two more bytes.
LeadTexts ==
    {Prefix0x \o <<HexChar(a), HexChar(b)>> \o tail :
        a \in 0..15, b \in 0..15, tail \in {<<>>, Txt(<<"0", "1", "0", "2">>)}}

Lists(items, n) == UNION {[1..k -> items] : k \in 0..n}

ListAtoms ==
    { Num(0), Num(1), Num(5), Num(16), Num(127), Num(128), Num(1000),
      Str(<<>>), Str(<<97>>), Str(Txt(<<"H", "i">>)), Str(<<233>>) }

InnerLists == {Arr(l) : l \in Lists({Num(5), Str(Txt(<<"H", "i">>))}, 1)}

\* Every printable ASCII character alone and next to another one, a line
\* feed, and the texts above.
PrintableTexts ==
    {<<c>> : c \in 32..126} \cup {<<c, 158 - c>> : c \in 32..126}

HexValues == {Str(t) : t \in Texts \cup PrintableTexts \cup {<<10>>}}

\* The items of the drawn arrays and objects: the entries of the examples, a
\* negative number, a boolean, an inner array, an inner object and null.
JsonAtoms ==
    { Num(1000), Num(-1), Str(Txt(<<"t", "r", "a", "n", "s", "f", "e", "r">>)),
      Str(TestAddress), Bool(TRUE), Arr(<<Num(5)>>), Obj(<<>>), Null }

\* The type tags of the drawn descriptors paired with a value, and of those
\* applied to a drawn text.
PairTags == {"uint256", "string", "address", "bool"}
AllTags == PairTags \cup {"bytes32", "bytes", "bytes[]"}

Keys == <<"recipient", "amount", "memo", "flag">>

\* The object whose i-th property is named Keys[i] and holds l[i].
ObjOf(l) == Obj([i \in 1..Len(l) |-> [key |-> Keys[i], val |-> l[i]]])

\* Values that are neither arrays nor plain objects, and a few more arrays
\* and objects.
JsonOthers ==
    { Num(1000), Num(0), NumHalf(0), Bool(FALSE), Null, Undefined,
      Str(<<>>), Str(TestAddress), Str(Txt(<<"0", "x", "7">>)),
      Str(Txt(<<"H", "i">>)), Str(Prefix0x \o Rep(102, WordLen - 2)),
      Arr(<<Arr(<<>>)>>), Arr(<<Num(0), Num(1000), Num(5)>>),
      ObjOf(<<Num(1), ObjOf(<<Num(1)>>)>>),
      ObjOf(<<Str(Prefix0x \o Rep(51, AddressLen - 2))>>) }

\* Encoded texts for decodeJSON: whole words, a short one, one with a
\* character that is no hex digit, and the empty text.
JsonTexts ==
    { <<>>, TrueWord, FalseWord, TrueWord \o FalseWord, Rep(50, WordLen),
      Rep(103, WordLen), Rep(103, 2 * WordLen), Rep(49, WordLen - 1),
      Rep(48, WordLen - 2) \o <<54, 49>> \o Rep(48, WordLen - 2) \o <<54, 50>> }

Descriptors ==
    {Arr(l) : l \in Lists(AllTags, MaxJsonLen)}
        \cup {ObjOf(l) : l \in Lists(AllTags, MaxJsonLen)}
        \cup {Null, Undefined, Str(Txt(<<"u", "i", "n", "t", "2", "5", "6">>))}

\* 'transfer(address,uint256)'
TransferSignature ==
    Txt(<<"t", "r", "a", "n", "s", "f", "e", "r", "(", "a", "d", "d", "r", "e", "s", "s",
          ",", "u", "i", "n", "t", "2", "5", "6", ")">>)

Signatures == {Str(t) : t \in SpecialTexts \cup PrintableTexts \cup {<<>>, TransferSignature}}

\* '0x48656c6c6f' and '0xxyz', and the same without the prefix.
StringValues ==
    { Str(Txt(<<"0", "x", "4", "8", "6", "5", "6", "c", "6", "c", "6", "f">>)),
      Str(Txt(<<"0", "x", "x", "y", "z">>)),
      Str(Txt(<<"4", "8", "6", "5", "6", "c", "6", "c", "6", "f">>)),
      Str(Txt(<<"x", "y", "z">>)) }

\* The retryUrl argument of the constructor: left out, null, empty, 'N/A',
\* 'https://mainnet.quantova.io/' and another URL.
RetryUrlArgs ==
    { Undefined, Null, Str(<<>>), Str(NotAvailable),
      Str(Txt(<<"h", "t", "t", "p", "s", ":", "/", "/", "m", "a", "i", "n", "n", "e", "t", ".",
                "q", "u", "a", "n", "t", "o", "v", "a", ".", "i", "o", "/">>)),
      Str(Txt(<<"h", "t", "t", "p", ":", "/", "/", "b">>)) }

\* Texts for RLP.decodeList: every text of the digits 0, 2 and f up to
\* MaxHexLen characters, and some with a character that is no hex digit.
HexTexts ==
    UNION {[1..n -> {48, 50, 102}] : n \in 0..MaxHexLen}
        \cup {Txt(<<"0", "0", "g", "g">>), Txt(<<"0", "0", "0", "1", "f", "g", "0", "0">>),
               Txt(<<"g">>), Txt(<<"0", "2", "0", "g">>)}

RlpValues ==
    {Num(n) : n \in 0..MaxNumber}
        \cup {Num(-1), Num(1000), Num(65536), Num(1234567890), NumHalf(0)}
        \cup {Str(t) : t \in Texts \cup LeadTexts}
        \cup {Arr(l) : l \in Lists(ListAtoms \cup InnerLists, MaxListLen)}
        \cup {Arr(<<Num(1000), Str(Txt(<<"H", "e", "l", "l", "o">>)), Str(TestAddress)>>),
              Arr(<<Num(5), Num(-1)>>), Arr(<<Num(-1)>>), Arr(<<Num(-1), Num(5)>>),
              Arr(<<Str(Txt(<<"H", "i">>)), Arr(<<Num(-1)>>)>>), Num(-300), NumHalf(-1)}
        \cup {Bool(TRUE), Big(FALSE, <<1>>)}

----------------------------------------------------------------------------
(* The calls *)

NoType == ""

Init ==
    /\ \/ api = "ABIUtils" /\ type \in AbiTypes /\ value \in AbiValues
       \/ api = "ABIUtils" /\ type = NoType /\ value \in Signatures
       \/ api = "RLP" /\ type = NoType /\ value \in RlpValues
       \/ api = "HexUtils" /\ type = NoType /\ value \in HexValues
       \/ api = "StringUtils" /\ type = NoType /\ value \in HexValues \cup StringValues
       \/ api = "RLP.decodeList" /\ type = NoType /\ value \in {Str(t) : t \in HexTexts}
       \/ api = "JSONUtils" /\ type = NoType
       \/ api = "ConnectionError" /\ type = NoType /\ value \in RetryUrlArgs
    /\ IF api = "ConnectionError"
       THEN retryUrl = ConnectionError_constructor(value).retryUrl
       ELSE retryUrl = None
    /\ promises = <<>>
    /\ invocations = <<>>
    /\ loop = None
    /\ \/ api # "JSONUtils" /\ descriptor = None
       \/ /\ api = "JSONUtils"
          /\ \/ \E n \in 0..MaxJsonLen :
                   \E l \in [1..n -> JsonAtoms], d \in [1..n -> PairTags] :
                       \/ value = Arr(l) /\ descriptor = Arr(d)
                       \/ value = ObjOf(l) /\ descriptor = ObjOf(d)
             \/ value \in JsonOthers /\ descriptor \in {Arr(<<"uint256", "string", "address">>), ObjOf(<<"address", "uint256">>)}
             \/ value \in {Str(t) : t \in JsonTexts} /\ descriptor \in Descriptors
    /\ calls = <<>>
    /\ mid = None
    /\ ret = None

\* ABIUtils.encodeParameter(type, value).
EncodeParameter ==
    /\ calls = <<>>
    /\ api = "ABIUtils"
    /\ type # NoType
    /\ calls' = <<"ABIUtils.encodeParameter">>
    /\ ret' = ABIUtils_encodeParameter(type, value)
    /\ UNCHANGED <<errVars, loop, api, type, value, descriptor, mid>>

\* ABIUtils.decodeParameter(type, value) of a drawn text.
DecodeParameter ==
    /\ calls = <<>>
    /\ api = "ABIUtils"
    /\ type # NoType
    /\ TypeOf(value) = "string"
    /\ calls' = <<"ABIUtils.decodeParameter">>
    /\ ret' = ABIUtils_decodeParameter(type, Val(value))
    /\ UNCHANGED <<errVars, loop, api, type, value, descriptor, mid>>

\* ABIUtils.decodeParameter(type, encoded) of the text encodeParameter
\* returned for the same type.
DecodeEncodedParameter ==
    /\ calls = <<"ABIUtils.encodeParameter">>
    /\ Returned(ret)
    /\ calls' = Append(calls, "ABIUtils.decodeParameter")
    /\ mid' = ret
    /\ ret' = ABIUtils_decodeParameter(type, Val(ret[2]))
    /\ UNCHANGED <<errVars, loop, api, type, value, descriptor>>

\* RLP.encode(value).
RlpEncode ==
    /\ calls = <<>>
    /\ api = "RLP"
    /\ calls' = <<"RLP.encode">>
    /\ ret' = RLP_encode(value)
    /\ UNCHANGED <<errVars, loop, api, type, value, descriptor, mid>>

\* RLP.decode(value) of a drawn text.
RlpDecode ==
    /\ calls = <<>>
    /\ api = "RLP"
    /\ TypeOf(value) = "string"
    /\ calls' = <<"RLP.decode">>
    /\ ret' = RLP_decode(Val(value))
    /\ UNCHANGED <<errVars, loop, api, type, value, descriptor, mid>>

\* RLP.decode(encoded) of the text RLP.encode returned.
RlpDecodeEncoded ==
    /\ calls = <<"RLP.encode">>
    /\ Returned(ret)
    /\ calls' = Append(calls, "RLP.decode")
    /\ mid' = ret
    /\ ret' = RLP_decode(Val(ret[2]))
    /\ UNCHANGED <<errVars, loop, api, type, value, descriptor>>

\* HexUtils.stringToHex(value).
StringToHex ==
    /\ calls = <<>>
    /\ api = "HexUtils"
    /\ calls' = <<"HexUtils.stringToHex">>
    /\ ret' = HexUtils_stringToHex(Val(value))
    /\ UNCHANGED <<errVars, loop, api, type, value, descriptor, mid>>

\* HexUtils.hexToString(value) of a drawn text.
HexToString ==
    /\ calls = <<>>
    /\ api = "HexUtils"
    /\ calls' = <<"HexUtils.hexToString">>
    /\ ret' = HexUtils_hexToString(Val(value))
    /\ UNCHANGED <<errVars, loop, api, type, value, descriptor, mid>>

\* HexUtils.hexToString(hex) of the text stringToHex returned.
HexToStringOfHex ==
    /\ calls = <<"HexUtils.stringToHex">>
    /\ Returned(ret)
    /\ calls' = Append(calls, "HexUtils.hexToString")
    /\ mid' = ret
    /\ ret' = HexUtils_hexToString(Val(ret[2]))
    /\ UNCHANGED <<errVars, loop, api, type, value, descriptor>>

\* JSONUtils.getType(value).
GetType ==
    /\ calls = <<>>
    /\ api = "JSONUtils"
    /\ calls' = <<"JSONUtils.getType">>
    /\ ret' = JSONUtils_getType(value)
    /\ UNCHANGED <<errVars, loop, api, type, value, descriptor, mid>>

\* JSONUtils.encodeJSON(value).
EncodeJSON ==
    /\ calls = <<>>
    /\ api = "JSONUtils"
    /\ calls' = <<"JSONUtils.encodeJSON">>
    /\ ret' = JSONUtils_encodeJSON(value)
    /\ UNCHANGED <<errVars, loop, api, type, value, descriptor, mid>>

\* JSONUtils.decodeJSON(value, descriptor) of a drawn text.
DecodeJSON ==
    /\ calls = <<>>
    /\ api = "JSONUtils"
    /\ TypeOf(value) = "string"
    /\ calls' = <<"JSONUtils.decodeJSON">>
    /\ ret' = JSONUtils_decodeJSON(Val(value), descriptor)
    /\ UNCHANGED <<errVars, loop, api, type, value, descriptor, mid>>

\* JSONUtils.decodeJSON(encoded, descriptor) of the text encodeJSON returned.
DecodeEncodedJSON ==
    /\ calls = <<"JSONUtils.encodeJSON">>
    /\ Returned(ret)
    /\ calls' = Append(calls, "JSONUtils.decodeJSON")
    /\ mid' = ret
    /\ ret' = JSONUtils_decodeJSON(Val(ret[2]), descriptor)
    /\ UNCHANGED <<errVars, loop, api, type, value, descriptor>>

\* ABIUtils.generateFunctionSelector(value).
GenerateFunctionSelector ==
    /\ calls = <<>>
    /\ api = "ABIUtils"
    /\ type = NoType
    /\ calls' = <<"ABIUtils.generateFunctionSelector">>
    /\ ret' = ABIUtils_generateFunctionSelector(Val(value))
    /\ UNCHANGED <<errVars, loop, api, type, value, descriptor, mid>>

\* A second ABIUtils.generateFunctionSelector(value), with the same signature.
GenerateFunctionSelectorAgain ==
    /\ calls = <<"ABIUtils.generateFunctionSelector">>
    /\ calls' = Append(calls, "ABIUtils.generateFunctionSelector")
    /\ mid' = ret
    /\ ret' = ABIUtils_generateFunctionSelector(Val(value))
    /\ UNCHANGED <<errVars, loop, api, type, value, descriptor>>

\* StringUtils.isValidHex(value).
IsValidHex ==
    /\ calls = <<>>
    /\ api = "StringUtils"
    /\ calls' = <<"StringUtils.isValidHex">>
    /\ ret' = StringUtils_isValidHex(Val(value))
    /\ UNCHANGED <<errVars, loop, api, type, value, descriptor, mid>>

\* error.retryConnection(retryFunction), up to its await.
RetryConnection ==
    /\ api = "ConnectionError"
    /\ Len(promises) < MaxRetryCalls
    /\ \E outcome \in RetryOutcomes :
          LET r == ConnectionError_retryConnection([retryUrl |-> retryUrl], outcome)
              call == Len(promises) + 1
          IN  /\ promises' = Append(promises, r.promise)
              /\ invocations' = invocations \o
                    [i \in 1..Len(r.invoked) |-> [call |-> call, url |-> r.invoked[i]]]
    /\ calls' = Append(calls, "ConnectionError.retryConnection")
    /\ UNCHANGED <<loop, api, type, value, descriptor, mid, ret, retryUrl>>

\* The awaited value of a retryConnection call arrives and the call finishes.
RetryConnectionResumes ==
    /\ api = "ConnectionError"
    /\ \E k \in 1..Len(promises) :
          /\ promises[k].state = "pending"
          /\ promises[k].retry # "never"
          /\ promises' = [promises EXCEPT ![k] = ConnectionError_afterAwait(@)]
    /\ UNCHANGED <<loop, api, type, value, descriptor, calls, mid, ret, retryUrl, invocations>>

\* RLP.decodeList(value) up to its loop: the first length field is read and
\* the index is 2.
DecodeListBegins ==
    /\ calls = <<>>
    /\ api = "RLP.decodeList"
    /\ calls' = <<"RLP.decodeList">>
    /\ loop' = [index |-> 2, list |-> <<>>]
    /\ UNCHANGED <<errVars, api, type, value, descriptor, mid, ret>>

\* One iteration of the loop of RLP.decodeList.
DecodeListIterates ==
    /\ calls = <<"RLP.decodeList">>
    /\ ret = None
    /\ RLP_decodeListContinues(Val(value), loop)
    /\ loop' = RLP_decodeListStep(Val(value), loop)
    /\ UNCHANGED <<errVars, api, type, value, descriptor, calls, mid, ret>>

\* The loop of RLP.decodeList has ended and the list is returned.
DecodeListReturns ==
    /\ calls = <<"RLP.decodeList">>
    /\ ret = None
    /\ ~RLP_decodeListContinues(Val(value), loop)
    /\ ret' = Return(Arr(loop.list))
    /\ UNCHANGED <<errVars, loop, api, type, value, descriptor, calls, mid>>

Next ==
    \/ EncodeParameter
    \/ DecodeParameter
    \/ DecodeEncodedParameter
    \/ RlpEncode
    \/ RlpDecode
    \/ RlpDecodeEncoded
    \/ StringToHex
    \/ HexToString
    \/ HexToStringOfHex
    \/ GetType
    \/ EncodeJSON
    \/ DecodeJSON
    \/ DecodeEncodedJSON
    \/ GenerateFunctionSelector
    \/ GenerateFunctionSelectorAgain
    \/ IsValidHex
    \/ RetryConnection
    \/ RetryConnectionResumes
    \/ DecodeListBegins
    \/ DecodeListIterates
    \/ DecodeListReturns

Spec == Init /\ [][Next]_vars

\* A started RLP.decodeList keeps running: the loop is a sequential
\* program.
LiveSpec ==
    Spec /\ WF_vars(DecodeListIterates) /\ WF_vars(DecodeListReturns)

----------------------------------------------------------------------------
(* Properties *)

Encoded == calls = <<"ABIUtils.encodeParameter">>
EncodedThenDecoded == calls = <<"ABIUtils.encodeParameter", "ABIUtils.decodeParameter">>
RlpEncoded == calls = <<"RLP.encode">>
RlpDecoded == calls = <<"RLP.decode">>

IsHexDigits(s) == \A i \in 1..Len(s) : IsHexChar(s[i])
IsLowerHexDigits(s) == \A i \in 1..Len(s) : s[i] \in (48..57) \cup (97..102)

\* The number a text of hex digits denotes.
RECURSIVE HexValue(_)
HexValue(s) ==
    IF s = <<>> THEN 0
    ELSE (16 * HexValue(SubSeq(s, 1, Len(s) - 1))) + HexVal(s[Len(s)])

\* Unpadded lowercase hex digits: at least one, no leading zero but "0".
IsUnpaddedHex(s) ==
    /\ Len(s) >= 1
    /\ IsLowerHexDigits(s)
    /\ (Len(s) > 1 => s[1] # 48)

\* A value whose encoding for the tag fits one word: an unsigned integer
\* below 2^256, a string of at most 31 bytes, a boolean, a 42-character
\* address, a bytes32 text of 64 hex digits, a hex text of at most a word.
FitsOneWord(t, v) ==
    CASE t = "uint256" ->
            /\ TypeOf(v) \in {"number", "bigint"}
            /\ Returned(ToBigInt(v))
            /\ ~ToBigInt(v)[2].neg
            /\ Len(ToBigInt(v)[2].mag) <= WordLen
      [] t = "string" -> TypeOf(v) = "string" /\ Len(Utf8Bytes(Val(v))) <= 31
      [] t = "bool" -> TypeOf(v) = "boolean"
      [] t = "address" -> HexUtils_isHex(v) /\ Len(Val(v)) = AddressLen
      [] t = "bytes32" ->
            TypeOf(v) = "string" /\ Len(Val(v)) = WordLen /\ IsHexDigits(Val(v))
      [] t = "bytes" -> HexUtils_isHex(v) /\ Len(Val(v)) <= WordLen
      [] OTHER -> FALSE

\* decoded == original: a decoded bigint equals the integer it came from.
SameValue(decoded, original) ==
    IF TypeOf(decoded) = "bigint"
    THEN Returned(ToBigInt(original)) /\ Val(decoded) = ToBigInt(original)[2]
    ELSE decoded = original

\* C1: for every supported type tag and every value whose encoding fits one
\* word, encodeParameter succeeds and decodeParameter of its result equals
\* the value.
C1_RoundTrip ==
    FitsOneWord(type, value) =>
        /\ Encoded => Returned(ret)
        /\ EncodedThenDecoded => Returned(ret) /\ SameValue(ret[2], value)

\* The hex form of a string or bytes value.
HexForm(t, v) == IF t = "string" THEN BytesToHex(Utf8Bytes(Val(v))) ELSE Val(v)

\* C2: every text encodeParameter returns is exactly 64 characters long,
\* except for a string or bytes value whose hex form is longer than 64
\* characters, whose result is longer than 64.
C2_WordLength ==
    (Encoded /\ Returned(ret)) =>
        \/ Len(Val(ret[2])) = WordLen
        \/ /\ type \in {"string", "bytes"}
           /\ Len(HexForm(type, value)) > WordLen
           /\ Len(Val(ret[2])) > WordLen

\* C3: every one-word result of encodeParameter is an ABI word: 64 hex
\* digits, with no "0x" in it, for the bytes tag as for the others.
C3_AbiWord ==
    (Encoded /\ Returned(ret) /\ Len(Val(ret[2])) = WordLen) =>
        IsHexDigits(Val(ret[2]))

IsAddress(v) == HexUtils_isHex(v) /\ Len(Val(v)) = AddressLen

\* C4 as stated: the word of a valid address is 24 zeros followed by the
\* lowercase form of its 40 digits.
C4_AddressLowercase ==
    (Encoded /\ type = "address" /\ IsAddress(value)) =>
        /\ Returned(ret)
        /\ Val(ret[2]) = Rep(48, 24) \o ToLower(Slice(Val(value), 2))

\* C4 amended: the word of a valid address is 64 characters, 24 zeros
\* followed by the 40 digits of the address in the case they were given in.
C4_AddressWord ==
    (Encoded /\ type = "address" /\ IsAddress(value)) =>
        /\ Returned(ret)
        /\ Len(Val(ret[2])) = 64
        /\ \A i \in 1..24 : Val(ret[2])[i] = 48
        /\ \A i \in 1..40 : Val(ret[2])[24 + i] = Val(value)[2 + i]

C4_Witness ==
    /\ Encoded
    /\ type = "address"
    /\ value = Str(TestAddress)
    /\ Returned(ret)
    /\ Val(ret[2]) # ToLower(Val(ret[2]))

\* C5: encodeParameter('bytes32', v) returns v unchanged when v is 64 hex
\* digits without prefix, fails with the length error when v is not 64
\* characters, and with the format error when v is 64 characters that are
\* not all hex digits.
C5_Bytes32 ==
    (Encoded /\ type = "bytes32" /\ TypeOf(value) = "string") =>
        IF Len(Val(value)) # WordLen
        THEN ret = Throw("Value must be 32 bytes (64 hex characters)")
        ELSE IF IsHexDigits(Val(value)) THEN ret = Return(value)
        ELSE ret = Throw("Value must be a valid hex string")

IsNonNegativeInteger(v) ==
    TypeOf(v) = "number" /\ Val(v).int >= 0 /\ ~Val(v).half

C7_RlpString ==
    (RlpEncoded /\ TypeOf(value) = "string") =>
        LET bytes == Utf8Bytes(Val(value))
            text == Val(ret[2])
            payload == Slice(text, Len(text) - (2 * Len(bytes)))
            prefix == SliceTo(text, 2, Len(text) - (2 * Len(bytes)))
        IN  /\ Returned(ret)
            /\ TypeOf(ret[2]) = "string"
            /\ SliceTo(text, 0, 2) = Prefix0x
            /\ Len(text) >= 2 + (2 * Len(bytes))
            /\ IsLowerHexDigits(payload)
            /\ HexToBytes(payload) = bytes
            /\ IF Len(bytes) = 1 /\ bytes[1] <= 127
               THEN prefix = <<>>
               ELSE IsUnpaddedHex(prefix) /\ HexValue(prefix) = Len(bytes)

C7_Witness ==
    /\ RlpEncoded
    /\ value = Str(Txt(<<"H", "i">>))
    /\ ret = Return(Str(Txt(<<"0", "x", "2", "4", "8", "6", "9">>)))

\* The values RLP.encode supports: non-negative numbers, strings, and lists
\* of supported values.
RECURSIVE IsSupported(_)
IsSupported(v) ==
    CASE TypeOf(v) = "number" -> Val(v).int >= 0
      [] TypeOf(v) = "string" -> TRUE
      [] TypeOf(v) = "array" -> \A i \in 1..Len(Val(v)) : IsSupported(Val(v)[i])
      [] OTHER -> FALSE

\* Twice the number a length prefix denotes: unpadded hex digits, followed
\* by ".8" when the number has a half; -1 for any other text.
TwiceLength(p) ==
    LET halved == Len(p) > 2 /\ SliceTo(p, Len(p) - 2, Len(p)) = <<46, 56>>
        digits == IF halved THEN SliceTo(p, 0, Len(p) - 2) ELSE p
    IN  IF IsUnpaddedHex(digits)
        THEN (2 * HexValue(digits)) + (IF halved THEN 1 ELSE 0)
        ELSE -1

\* The number of places where "0x" occurs in a text.
Count0x(s) == Cardinality({i \in 1..(Len(s) - 1) : s[i] = 48 /\ s[i + 1] = 120})

\* C8: RLP.encode of a list of supported values is "0x", the unpadded hex of
\* half the character count of the joined element encodings, and the
\* element encodings in list order, each without its "0x"; "0x" occurs once,
\* at the start.
C8_RlpList ==
    (RlpEncoded /\ TypeOf(value) = "array" /\ IsSupported(value)) =>
        LET items == Val(value)
            text == Val(ret[2])
            body == Join([i \in 1..Len(items) |-> Slice(Val(RLP_encode(items[i])[2]), 2)])
        IN  /\ Returned(ret)
            /\ TypeOf(ret[2]) = "string"
            /\ SliceTo(text, 0, 2) = Prefix0x
            /\ Len(text) >= 2 + Len(body)
            /\ Slice(text, Len(text) - Len(body)) = body
            /\ TwiceLength(SliceTo(text, 2, Len(text) - Len(body))) = Len(body)
            /\ Count0x(text) = 1

C8_Witness ==
    /\ RlpEncoded
    /\ value = Arr(<<Num(1000), Str(Txt(<<"H", "e", "l", "l", "o">>)), Str(TestAddress)>>)
    /\ Returned(ret)
    /\ SliceTo(Val(ret[2]), 0, 4) = Txt(<<"0", "x", "3", "2">>)

\* The byte the first two hex digits after the prefix denote, -1 when the
\* text has no "0x" followed by two hex digits.
LeadingByte(s) ==
    IF Len(s) >= 4 /\ SliceTo(s, 0, 2) = Prefix0x /\ IsHexChar(s[3]) /\ IsHexChar(s[4])
    THEN (16 * HexVal(s[3])) + HexVal(s[4])
    ELSE -1

\* C9: for every text whose leading byte is at least 0xc0, RLP.decode
\* returns what decodeList makes of it: a list of raw hex substrings.
C9_DecodeDelegatesToList ==
    (RlpDecoded /\ LeadingByte(Val(value)) >= 192) =>
        /\ Returned(ret)
        /\ TypeOf(ret[2]) = "array"
        /\ ret = RLP_decodeList(Slice(Val(value), 2))

\* C10: for every text whose leading byte is 0x80 .. 0xbf, RLP.decode fails
\* with the unsupported-format error.
C10_UnsupportedFormat ==
    (RlpDecoded /\ LeadingByte(Val(value)) \in 128..191) =>
        ret = Throw("Unsupported RLP format")

\* The text has the "0x" prefix.
HasPrefix0x(s) == Len(s) >= 2 /\ SliceTo(s, 0, 2) = Prefix0x

\* C11: for every prefixed text with fewer than 2 characters after the
\* prefix (such as "0x" and "0x7"), RLP.decode fails with the length error.
C11_DecodeLengthError ==
    (RlpDecoded /\ HasPrefix0x(Val(value)) /\ Len(Val(value)) - 2 < 2) =>
        ret = Throw("Hex string must be at least 2 characters long")

RlpEncodedThenDecoded == calls = <<"RLP.encode", "RLP.decode">>

\* C12: for every number RLP.encode accepts and every string, RLP.decode of
\* the text RLP.encode returned is the value that was encoded.
C12_RlpRoundTrip ==
    (/\ RlpEncodedThenDecoded
     /\ IsNonNegativeInteger(value) \/ TypeOf(value) = "string") =>
        ret = Return(value)

IsPrintableAscii(s) == \A i \in 1..Len(s) : s[i] \in 32..126

\* C13: for every printable-ASCII string s, stringToHex(s) is "0x" followed
\* by exactly two lowercase hex digits per character of s, and hexToString of
\* that text is s.
C13_HexRoundTrip ==
    (/\ calls = <<"HexUtils.stringToHex", "HexUtils.hexToString">>
     /\ IsPrintableAscii(Val(value))) =>
        /\ HasPrefix0x(Val(mid[2]))
        /\ Len(Val(mid[2])) = 2 + (2 * Len(Val(value)))
        /\ IsLowerHexDigits(Slice(Val(mid[2]), 2))
        /\ ret = Return(value)

GotType == calls = <<"JSONUtils.getType">>
JsonEncoded == calls = <<"JSONUtils.encodeJSON">>
JsonEncodedThenDecoded == calls = <<"JSONUtils.encodeJSON", "JSONUtils.decodeJSON">>
JsonDecoded == calls = <<"JSONUtils.decodeJSON">>

\* C14: getType gives bytes32 for a hex-formatted string, string for any
\* other string, uint256 for a number, bool for a boolean, bytes[] for an
\* array, and fails with the unsupported-type error for anything else.
C14_GetType ==
    GotType =>
        ret = CASE HexUtils_isHex(value) -> Return("bytes32")
                [] TypeOf(value) = "string" /\ ~HexUtils_isHex(value) -> Return("string")
                [] TypeOf(value) = "number" -> Return("uint256")
                [] TypeOf(value) = "boolean" -> Return("bool")
                [] TypeOf(value) = "array" -> Return("bytes[]")
                [] OTHER -> Throw("Unsupported type")

\* The entries of an array or a plain object, in order.
Entries(v) ==
    IF TypeOf(v) = "array" THEN Val(v) ELSE [i \in 1..Len(Val(v)) |-> Val(v)[i].val]

IsContainer(v) == TypeOf(v) \in {"array", "object"}

\* C15: encodeJSON fails for every array or object one of whose entries is
\* itself an array or an object, whatever the other entries are.
C15_NestedFails ==
    (/\ JsonEncoded
     /\ IsContainer(value)
     /\ \E i \in 1..Len(Entries(value)) : IsContainer(Entries(value)[i])) =>
        Threw(ret)

C15_Witness ==
    /\ JsonEncoded
    /\ value = Arr(<<Num(1000), Arr(<<Num(5)>>)>>)
    /\ ret = Throw("Unsupported ABI type")

\* C16: encodeJSON fails with the unsupported-type error for every value that
\* is neither an array nor a plain object.
C16_ScalarFails ==
    (JsonEncoded /\ ~IsContainer(value)) =>
        ret = Throw("Value must be an object or an array")

\* The descriptor entry that names the type of an entry of the value.
TagOf(v) ==
    IF TypeOf(v) = "number" THEN "uint256"
    ELSE IF IsAddress(v) THEN "address"
    ELSE "string"

\* A sequence or mapping of non-negative integers, strings and addresses,
\* with the descriptor of the same shape that names each entry's type.
Described(v, d) ==
    /\ IsContainer(v)
    /\ TypeOf(d) = TypeOf(v)
    /\ Len(Val(d)) = Len(Val(v))
    /\ TypeOf(v) = "object" => \A i \in 1..Len(Val(v)) : Val(d)[i].key = Val(v)[i].key
    /\ \A i \in 1..Len(Val(v)) :
          /\ IsNonNegativeInteger(Entries(v)[i]) \/ TypeOf(Entries(v)[i]) = "string"
          /\ Entries(d)[i] = TagOf(Entries(v)[i])

\* C17: for such a value and descriptor, encodeJSON succeeds and decodeJSON
\* of its result returns a value of the same shape with equal entries in the
\* same order.
C17_JsonRoundTrip ==
    Described(value, descriptor) =>
        /\ JsonEncoded => Returned(ret)
        /\ JsonEncodedThenDecoded =>
              /\ Returned(ret)
              /\ TypeOf(ret[2]) = TypeOf(value)
              /\ Len(Val(ret[2])) = Len(Val(value))
              /\ TypeOf(value) = "object" =>
                    \A i \in 1..Len(Val(value)) : Val(ret[2])[i].key = Val(value)[i].key
              /\ \A i \in 1..Len(Val(value)) :
                    SameValue(Entries(ret[2])[i], Entries(value)[i])

Decoded == calls = <<"ABIUtils.decodeParameter">>

SupportedTags == {"uint256", "string", "bool", "address", "bytes32", "bytes"}

\* An encoded text that is malformed for n words of the given tags: it has a
\* character that is no hex digit, or not 64 characters per word, or the
\* word of a bool is neither boolean constant.
Malformed(e, tags) ==
    \/ ~IsHexDigits(e)
    \/ Len(e) # WordLen * Len(tags)
    \/ \E i \in 1..Len(tags) :
          /\ tags[i] = "bool"
          /\ SliceTo(e, (i - 1) * WordLen, i * WordLen) \notin {TrueWord, FalseWord}

\* A text that is malformed for RLP.decode: after the prefix it has a
\* character that is no hex digit or an odd number of characters.
MalformedRlp(s) ==
    HasPrefix0x(s) /\ (~IsHexDigits(Slice(s, 2)) \/ Len(s) % 2 = 1)

\* C18: for every malformed input, ABIUtils.decodeParameter, RLP.decode and
\* JSONUtils.decodeJSON fail instead of returning a value.
C18_NoFallback ==
    /\ (/\ Decoded
        /\ type \in SupportedTags
        /\ Malformed(Val(value), <<type>>)) => Threw(ret)
    /\ (RlpDecoded /\ MalformedRlp(Val(value))) => Threw(ret)
    /\ (/\ JsonDecoded
        /\ IsContainer(descriptor)
        /\ \A i \in 1..Len(Val(descriptor)) : Entries(descriptor)[i] \in SupportedTags
        /\ Malformed(Val(value), Entries(descriptor))) => Threw(ret)

\* A number below zero, at any depth of a list.
RECURSIVE HasNegative(_)
HasNegative(v) ==
    CASE TypeOf(v) = "number" -> Val(v).int < 0
      [] TypeOf(v) = "array" -> \E i \in 1..Len(Val(v)) : HasNegative(Val(v)[i])
      [] OTHER -> FALSE

\* Numbers, strings and lists of them.
RECURSIVE IsRlpValue(_)
IsRlpValue(v) ==
    CASE TypeOf(v) \in {"number", "string"} -> TRUE
      [] TypeOf(v) = "array" -> \A i \in 1..Len(Val(v)) : IsRlpValue(Val(v)[i])
      [] OTHER -> FALSE

\* C19: RLP.encode of a negative number, alone or inside a list, and
\* encodeParameter('uint256', v) for v whose integer value is negative, fail
\* with the range error and return no text.
C19_NegativeRejected ==
    /\ (RlpEncoded /\ IsRlpValue(value) /\ HasNegative(value)) =>
            ret = Throw("Cannot encode negative numbers")
    /\ (/\ Encoded
        /\ type = "uint256"
        /\ Returned(ToBigInt(value))
        /\ ToBigInt(value)[2].neg) =>
            ret = Throw("Value must be a positive integer")

C19_Witness ==
    /\ RlpEncoded
    /\ value = Arr(<<Str(Txt(<<"H", "i">>)), Arr(<<Num(-1)>>)>>)
    /\ ret = Throw("Cannot encode negative numbers")

\* A string of exactly 42 characters: "0x" and 40 hex digits.
IsValidAddressText(v) ==
    /\ TypeOf(v) = "string"
    /\ Len(Val(v)) = 42
    /\ HasPrefix0x(Val(v))
    /\ IsHexDigits(Slice(Val(v), 2))

\* C20: encodeParameter('address', a) succeeds exactly when a is valid hex
\* of 42 characters, and then returns a without its prefix left-padded with
\* zeros to 64 characters; for every other a it fails with the
\* invalid-address error.
C20_AddressValidity ==
    (Encoded /\ type = "address") =>
        IF IsValidAddressText(value)
        THEN ret = Return(Str(Rep(48, 24) \o Slice(Val(value), 2)))
        ELSE ret = Throw("Invalid Quantova address")

C20_Witness ==
    /\ Encoded
    /\ type = "address"
    /\ TypeOf(value) = "string"
    /\ Len(Val(value)) = 42
    /\ HasPrefix0x(Val(value))
    /\ ~IsHexDigits(Slice(Val(value), 2))
    /\ ret = Throw("Invalid Quantova address")

\* C21: encodeParameter and decodeParameter fail with the unsupported-type
\* error for every tag outside the six supported ones, whatever the value,
\* and never fail with that error for a supported tag.
C21_UnsupportedTag ==
    (Encoded \/ Decoded \/ EncodedThenDecoded) =>
        (ret = Throw("Unsupported ABI type")
            <=> type \notin {"uint256", "string", "bool", "address", "bytes32", "bytes"})

C21_Witness ==
    /\ Decoded
    /\ type = "uint8"
    /\ ret = Throw("Unsupported ABI type")

C23_IsValidHex ==
    (calls = <<"StringUtils.isValidHex">> /\ HasPrefix0x(Val(value))) =>
        /\ (Len(Val(value)) >= 3 /\ IsHexDigits(Slice(Val(value), 2))) =>
              ret = Return(Bool(TRUE))
        /\ ~IsHexDigits(Slice(Val(value), 2)) => ret = Return(Bool(FALSE))

Settled(p) == p.state \in {"fulfilled", "rejected"}

\* C24: the promise of retryConnection is fulfilled when the retry succeeded
\* and rejected when it failed: whenever retryFunction threw or returned a
\* promise that was rejected, the promise of retryConnection is rejected.
C24_RetryPromise ==
    \A k \in 1..Len(promises) :
        Settled(promises[k]) =>
            /\ promises[k].retry \in {"returns", "resolves"} => promises[k].state = "fulfilled"
            /\ promises[k].retry \in {"throws", "rejects"} => promises[k].state = "rejected"

\* C30: each retryConnection call invokes retryFunction at most once, always
\* with the retryUrl stored at construction; when that is "N/A" the call is
\* rejected with 'No retry URL available.' and retryFunction is not invoked.
C30_RetryInvocations ==
    api = "ConnectionError" =>
        /\ \A k \in 1..Len(promises) :
              Cardinality({i \in 1..Len(invocations) : invocations[i].call = k}) <= 1
        /\ \A i \in 1..Len(invocations) :
              /\ invocations[i].url = value
              /\ invocations[i].url = retryUrl
        /\ retryUrl = Str(NotAvailable) =>
              /\ invocations = <<>>
              /\ \A k \in 1..Len(promises) :
                    /\ promises[k].state = "rejected"
                    /\ promises[k].value = <<"error", "No retry URL available.">>

C30_NoUrlRejected ==
    /\ api = "ConnectionError"
    /\ value = Null
    /\ Len(promises) = 2
    /\ promises[2].state = "rejected"
    /\ invocations = <<>>

\* Two calls that each invoked retryFunction once with the stored URL.
C30_Witness ==
    /\ api = "ConnectionError"
    /\ Len(promises) = 2
    /\ Len(invocations) = 2
    /\ invocations[2] = [call |-> 2, url |-> retryUrl]
    /\ promises[1].retry = "throws"

\* The characters [64k, 64k + 64) of a text, k from 0.
WordAt(e, k) == SliceTo(e, 64 * k, (64 * k) + 64)

StripTrailingNulls(s) ==
    LET keep == {i \in 1..Len(s) : s[i] # 0}
    IN  IF keep = {} THEN <<>>
        ELSE SubSeq(s, 1, CHOOSE i \in keep : \A j \in keep : j <= i)

\* C26: decodeParameter('string', w) is the UTF-8 reading of the bytes of w
\* without its trailing null characters only, so that a string with a null
\* character inside it comes back from encodeParameter then decodeParameter.
C26_TrailingNulls ==
    /\ (Decoded /\ type = "string") =>
          ret = Return(Str(StripTrailingNulls(Utf8Decode(HexToBytes(Val(value))))))
    /\ (/\ EncodedThenDecoded
        /\ type = "string"
        /\ TypeOf(value) = "string"
        /\ \E i \in 1..Len(Val(value)) : Val(value)[i] = 0 /\ Val(value)[Len(Val(value))] # 0) =>
          ret = Return(value)

\* C27: for every list of supported values, the joined element encodings
\* have an even number of hex characters, so that the byte length encodeList
\* computes is whole, and the output is "0x" followed only by lowercase hex
\* digits.
C27_WholeByteLength ==
    (RlpEncoded /\ TypeOf(value) = "array" /\ IsSupported(value)) =>
        LET items == Val(value)
            body == Join([i \in 1..Len(items) |-> Slice(Val(RLP_encode(items[i])[2]), 2)])
        IN  /\ Returned(ret)
            /\ Len(body) % 2 = 0
            /\ HasPrefix0x(Val(ret[2]))
            /\ IsLowerHexDigits(Slice(Val(ret[2]), 2))

\* Lists of small non-negative integers to compare an encoded list with.
SmallIntLists == {Arr(l) : l \in Lists({Num(0), Num(1), Num(16)}, MaxListLen)}

\* C29: no list of supported values other than the encoded one has the same
\* RLP.encode output.
C29_ListsInjective ==
    (RlpEncoded /\ TypeOf(value) = "array" /\ IsSupported(value) /\ Returned(ret)) =>
        \A other \in SmallIntLists : other # value => RLP_encode(other) # ret

DecodingList == calls = <<"RLP.decodeList">>

\* The number of characters after the first length field.
AfterLengthField(s) == IF Len(s) > 2 THEN Len(s) - 2 ELSE 0

\* In each iteration on a hex text the index grows by at least 2.
IndexGrows ==
    [][(DecodingList /\ IsHexDigits(Val(value)) /\ loop' # loop)
          => loop'.index >= loop.index + 2]_vars

\* The loop runs only while the index is inside the text and is a number.
LoopEnds ==
    [][(DecodingList /\ loop' # loop)
          => (loop.index # NaN /\ loop.index < Len(Val(value)))]_vars

\* Every started decodeList returns.
Terminates == DecodingList ~> (DecodingList /\ Returned(ret))

\* C28 as stated: decodeList terminates on every hex text, the index grows by
\* at least 2 in each iteration, the loop ends once the index reaches the end
\* of the text or an item length cannot be parsed, and the number of elements
\* is at most half the number of characters after the first length field.
C28_DecodeListHalf ==
    /\ IndexGrows
    /\ LoopEnds
    /\ Terminates
    /\ [](DecodingList /\ IsHexDigits(Val(value))
            => 2 * Len(loop.list) <= AfterLengthField(Val(value)))

\* C28 amended: the same, with the number of elements at most half the number
\* of characters after the first length field, rounded up.
C28_DecodeListTerminates ==
    /\ IndexGrows
    /\ LoopEnds
    /\ Terminates
    /\ [](DecodingList /\ IsHexDigits(Val(value))
            => 2 * Len(loop.list) <= AfterLengthField(Val(value)) + 1)

C28_Witness ==
    /\ DecodingList
    /\ value = Str(Txt(<<"0", "0", "0", "0", "2">>))
    /\ loop.index = 8
    /\ ret = Return(Arr(<<Str(<<>>), Str(<<>>)>>))

====
